---- MODULE Spec2Model ----
(***************************************************************************)
(* Model of the form-merge tool: the document registry kept in             *)
(* st.session_state["pdf_files"] and the flatten-and-merge engine          *)
(* flatten_pdfs, as driven by one Streamlit script run after another.      *)
(* Two entry scripts share the design: src/app.py and                      *)
(* src/streamlit_app.py; `variant` says which one a behaviour runs.        *)
(*                                                                         *)
(* A script run is main() executed top to bottom.  One widget interaction  *)
(* of the user starts one run; st.rerun() abandons the current run and     *)
(* starts the next with the same widget state.  pc is the position of the  *)
(* current run inside main(); "idle" means the script has finished and     *)
(* the page waits for the user.                                            *)
(***************************************************************************)
EXTENDS Integers, Sequences, FiniteSets, TLC

VARIABLES
    variant,          \* "app" (src/app.py) or "streamlit" (src/streamlit_app.py)
    uploader,         \* the files the st.file_uploader widget holds
    pdf_files,        \* st.session_state["pdf_files"]
    last_output,      \* st.session_state["last_output"]: <<>> is None, <<r>> a stored result
    pc,               \* position of the running script inside main()
    drag,             \* the order the user last dragged the sort_items list into
    event,            \* what started this run: a widget interaction, or the statement
                      \* whose st.rerun() did ("rerun-..."); "none" while idle
    ci,               \* cache_uploaded_files: index of `uploaded` in uploaded_files
    existing_hashes,  \* cache_uploaded_files: local set existing_hashes
    outcomes,         \* cache_uploaded_files: what happened to each file of the batch
    params,           \* flatten_pdfs: dpi, image_format, jpeg_quality
    output_doc,       \* flatten_pdfs: pages of output_doc
    total_pages,      \* flatten_pdfs: local total_pages (app.py)
    doc_idx,          \* flatten_pdfs: index of `entry` in file_entries
    page_idx,         \* flatten_pdfs: index of `page` in src_doc
    open_docs,        \* flatten_pdfs: indices of entries whose src_doc is open
    merge_result,     \* how the flatten_pdfs call of this run ended: "none", "ok", "error"
    exc,              \* main(): the exception caught from flatten_pdfs, <<>> if none
    remove_select     \* the "Remove a PDF" selectbox: <<>> reads "Keep all", <<c>> a choice

vars == <<variant, uploader, drag, pdf_files, last_output, pc, event, ci, existing_hashes,
          outcomes, params, output_doc, total_pages, doc_idx, page_idx, open_docs,
          merge_result, exc, remove_select>>

registry_vars == <<pdf_files, last_output>>
cache_vars == <<ci, existing_hashes, outcomes>>
flatten_locals == <<params, output_doc, total_pages, doc_idx, page_idx, open_docs>>
flatten_vars == <<flatten_locals, merge_result, exc>>

----------------------------------------------------------------------------
(* Bounds of the model.                                                    *)

MaxUpload == 2     \* files the uploader widget holds at most

(* Program constants.                                                      *)
DEFAULT_DPI == 200
DEFAULT_JPEG_QUALITY == 85

----------------------------------------------------------------------------
(* Byte contents the user may upload, named by a letter.  What PyMuPDF     *)
(* makes of each is a function of the bytes alone:                         *)
(*   "A" a PDF of 2 pages,  "B" a PDF of 3 pages,  "K" a PDF of 2 pages    *)
(*   whose page 2 cannot be rasterized, "E" the zero-length byte string,   *)
(*   which PyMuPDF cannot open, as it cannot open any non-PDF bytes.       *)

ValidData   == {"A", "B", "K"}
InvalidData == {"E"}

\* fitz.open(stream=file_bytes, filetype="pdf") succeeds
Opens(data) == data \in ValidData

\* len(doc) of the opened document
PageCount(data) ==
    CASE data = "A" -> 2
      [] data = "B" -> 3
      [] data = "K" -> 2
      [] OTHER      -> 0

\* page.get_pixmap(...) and pix.tobytes(...) succeed on page p of the document
Rasterizes(data, p) == ~(data = "K" /\ p = 2)

\* len(file_bytes)
ByteLen(data) ==
    CASE data = "E" -> 0
      [] data = "A" -> 5
      [] data = "B" -> 7
      [] OTHER      -> 6

\* hashlib.sha1(file_bytes).hexdigest(): a digest, taken to be free of
\* collisions on the contents above.
Sha1(data) == <<"sha1", data>>

\* The uploaded files of the model: name and bytes.  g.pdf/A is the content of
\* f.pdf/A under another display name; f.pdf/K is other content under the same
\* name and with the same page count as f.pdf/A.
UploadedFile(name, data) == [name |-> name, data |-> data]

Files == { UploadedFile("f.pdf", "A"), UploadedFile("g.pdf", "A"),
           UploadedFile("g.pdf", "B"), UploadedFile("f.pdf", "K"),
           UploadedFile("f.pdf", "E") }

\* str(uuid.uuid4()): an identifier no entry of the registry carries.  An id
\* is its first four characters (prefix) and the rest (serial).  Two ids
\* differ in the serial; their prefixes may coincide.
Prefixes == {"0a1b", "ffee"}

UsedSerials(files) == { files[i].id.serial : i \in 1..Len(files) }

FreshSerial(files) ==
    CHOOSE s \in 1..(Len(files) + 1) :
        /\ s \notin UsedSerials(files)
        /\ \A t \in 1..(s - 1) : t \in UsedSerials(files)

uuid4(files) == { [prefix |-> p, serial |-> FreshSerial(files)] : p \in Prefixes }

----------------------------------------------------------------------------
(* Sequence helpers.                                                       *)

Range(s) == { s[i] : i \in 1..Len(s) }

SeqsUpTo(S, n) == UNION { [1..k -> S] : k \in 0..n }

RECURSIVE SumPages(_)
SumPages(files) ==
    IF files = <<>> THEN 0
    ELSE files[1].pages + SumPages(Tail(files))

Checksums(files) == { files[i].checksum : i \in 1..Len(files) }

----------------------------------------------------------------------------
(* init_state and the start of a script run.                               *)

DefaultParams ==
    [dpi |-> DEFAULT_DPI, image_format |-> "JPEG", jpeg_quality |-> DEFAULT_JPEG_QUALITY]

Init ==
    /\ variant \in {"app", "streamlit"}
    /\ uploader = <<>>
    /\ pdf_files = <<>>
    /\ last_output = <<>>
    /\ pc = "idle"
    /\ drag = <<>>
    /\ event = "none"
    /\ ci = 1
    /\ existing_hashes = {}
    /\ outcomes = <<>>
    /\ params = DefaultParams
    /\ output_doc = <<>>
    /\ total_pages = 0
    /\ doc_idx = 1
    /\ page_idx = 1
    /\ open_docs = {}
    /\ merge_result = "none"
    /\ exc = <<>>
    /\ remove_select = <<>>

----------------------------------------------------------------------------
(* The user's widget interactions.  Each one happens while the page is     *)
(* idle and starts a script run; `event` records which widget it was.      *)

StartRun(ev) ==
    /\ event' = ev
    /\ pc' = "upload"

\* st.file_uploader: the user drops one or more files on the widget.
UserUpload ==
    /\ pc = "idle"
    /\ \E fs \in SeqsUpTo(Files, MaxUpload) \ {<<>>} :
        /\ Len(uploader) + Len(fs) <= MaxUpload
        /\ Len(pdf_files) + Len(fs) <= MaxUpload
        /\ uploader' = uploader \o fs
    /\ StartRun("upload")
    /\ drag' = <<>>
    /\ UNCHANGED <<variant, remove_select, registry_vars, cache_vars, flatten_vars>>

\* A widget that is drawn only while the registry is not empty is used:
\* sort_items, the "Remove a PDF" selectbox and "Clear List" in app.py, the
\* up and down buttons in streamlit_app.py, and "Create Flattened PDF", which
\* is disabled while the registry is empty.
UserWidget ==
    /\ pc = "idle"
    /\ pdf_files # <<>>
    /\ \E ev \in IF variant = "app" THEN {"sort", "remove", "clear", "merge"}
                                     ELSE {"up", "down", "merge"} :
        /\ ev = "sort" => Len(pdf_files) <= MaxUpload
        /\ ev \in {"up", "down"} => Len(pdf_files) >= 2
        /\ StartRun(ev)
    /\ drag' = <<>>
    /\ UNCHANGED <<variant, remove_select, uploader, registry_vars, cache_vars, flatten_vars>>

\* "Merge Another File" of streamlit_app.py, drawn while a result is stored.
UserMergeAnother ==
    /\ pc = "idle"
    /\ variant = "streamlit"
    /\ last_output # <<>>
    /\ StartRun("another")
    /\ drag' = <<>>
    /\ UNCHANGED <<variant, remove_select, uploader, registry_vars, cache_vars, flatten_vars>>

\* st.rerun(): the current run is abandoned and main() starts again with the
\* widgets as they are; no button reads as clicked in the new run.
Rerun(by) == StartRun(by)

----------------------------------------------------------------------------
(* cache_uploaded_files, one loop iteration per step.                      *)

\* main: `if uploaded_files: cache_uploaded_files(uploaded_files)`, up to the
\* first iteration of the loop.
CacheBegin ==
    /\ pc = "upload"
    /\ outcomes' = <<>>
    /\ ci' = 1
    /\ IF uploader # <<>>
       THEN /\ existing_hashes' = Checksums(pdf_files)
            /\ pc' = "cache"
       ELSE /\ existing_hashes' = {}
            /\ pc' = "render"
    /\ merge_result' = "none"
    /\ exc' = <<>>
    /\ UNCHANGED <<variant, remove_select, uploader, drag, registry_vars, event, flatten_locals>>

\* The model keeps the outcomes of a batch until the list below the uploader
\* is handled; the locals of cache_uploaded_files end with the call.
DropWarnings ==
    /\ outcomes' = <<>>
    /\ UNCHANGED <<ci, existing_hashes>>

\* The entry appended to pdf_files; app.py also records the size.
NewEntry(uploaded, id) ==
    IF variant = "app"
    THEN [id |-> id, name |-> uploaded.name, data |-> uploaded.data,
          checksum |-> Sha1(uploaded.data), pages |-> PageCount(uploaded.data),
          size |-> ByteLen(uploaded.data)]
    ELSE [id |-> id, name |-> uploaded.name, data |-> uploaded.data,
          checksum |-> Sha1(uploaded.data), pages |-> PageCount(uploaded.data)]

\* app.py line 249 adds the checksum to existing_hashes before the file is
\* opened; streamlit_app.py never updates existing_hashes.
RememberHash(hashes, checksum) ==
    IF variant = "app" THEN hashes \cup {checksum} ELSE hashes

\* Mutant of AppendEntry: the entry is put in front.
AppendEntryFront(files, entry) == <<entry>> \o files

\* st.session_state["pdf_files"].append(entry)
AppendEntry(files, entry) == Append(files, entry)

\* The body of `for uploaded in uploaded_files` for the file at index ci.
CacheStep ==
    /\ pc = "cache"
    /\ LET uploaded == uploader[ci]
           file_bytes == uploaded.data
           checksum == Sha1(file_bytes)
       IN  IF checksum \in existing_hashes
           THEN /\ outcomes' = Append(outcomes, "Duplicate")
                /\ existing_hashes' = IF ci = Len(uploader) THEN {} ELSE existing_hashes
                /\ UNCHANGED pdf_files
           ELSE /\ existing_hashes' = IF ci = Len(uploader) THEN {}
                                      ELSE RememberHash(existing_hashes, checksum)
                /\ IF Opens(file_bytes)
                   THEN /\ \E id \in uuid4(pdf_files) :
                              pdf_files' = AppendEntry(pdf_files, NewEntry(uploaded, id))
                        /\ outcomes' = Append(outcomes, "Registered")
                   ELSE /\ outcomes' = Append(outcomes, "Invalid")   \* st.warning
                        /\ UNCHANGED pdf_files
    /\ ci' = IF ci = Len(uploader) THEN 1 ELSE ci + 1
    /\ pc' = IF ci = Len(uploader) THEN "render" ELSE "cache"
    /\ UNCHANGED <<variant, remove_select, uploader, drag, last_output, event, flatten_vars>>

----------------------------------------------------------------------------
(* render_uploaded_list of app.py.                                         *)

\* f"{item['name']} — {item['pages']} pages · #{item['id'][:4]}"
DisplayLabel(item) == <<item.name, item.pages, item.id.prefix>>

display_labels(files) == [i \in 1..Len(files) |-> DisplayLabel(files[i])]

\* mapping = {label: entry for label, entry in zip(display_labels, files)}:
\* a dict, so of two entries with one label the later one is kept.
mapping(files, label) ==
    LET at == { i \in 1..Len(files) : DisplayLabel(files[i]) = label }
    IN  files[CHOOSE i \in at : \A j \in at : j <= i]

\* A label no entry of the registry has.
ForeignLabel == <<"?", 0, "0000">>

\* What the user can make the sort_items component hand back: the items in
\* an order given as positions of the list it was handed.  A well-behaved
\* component hands back a permutation; position 0 stands for an item that
\* is not in the list, and a position may be missing or occur twice.
SortRequests(n) == SeqsUpTo(0..n, n)

IsPermutation(request, n) ==
    /\ Len(request) = n
    /\ \A k \in 1..n : \E i \in 1..n : request[i] = k

\* reordered = sort_items(display_labels, ...)
sort_items(labels, request) ==
    [i \in 1..Len(request) |->
        IF request[i] = 0 THEN ForeignLabel ELSE labels[request[i]]]

\* st.session_state["pdf_files"] = [mapping[label] for label in reordered]
Reordered(files, reordered) ==
    [i \in 1..Len(reordered) |-> mapping(files, reordered[i])]

\* Mutant of remove_item: the comparison turned round.
remove_item_inverted(files, item_id) == SelectSeq(files, LAMBDA item : item.id = item_id)

\* remove_item: filtered = [item for item in files if item["id"] != item_id]
remove_item(files, item_id) == SelectSeq(files, LAMBDA item : item.id # item_id)

\* (f"{index + 1}. {item['name']} ({item['pages']} pages)", item["id"])
OptionLabel(files, i) == <<i, files[i].name, files[i].pages>>

option_labels(files) == [i \in 1..Len(files) |-> OptionLabel(files, i)]

\* chosen_map = {label: value for label, value in option_pairs}
chosen_map(files, label) ==
    LET at == { i \in 1..Len(files) : OptionLabel(files, i) = label }
    IN  files[CHOOSE i \in at : \A j \in at : j <= i].id

\* st.selectbox(..., key="remove-select") is no button: its choice is widget
\* state and outlives the st.rerun() that follows the removal.  In the next
\* run the selectbox reads the same choice again if it is drawn with the
\* same list of options; it reads "Keep all" (index=0) if the label chosen
\* is not among the options any more.  Where the label is still an option
\* of a changed list, Streamlit versions differ (the widget is identified by
\* its arguments, or by its key alone), so both readings are possible.
ChoiceKept ==
    /\ remove_select # <<>>
    /\ remove_select[1].options = option_labels(pdf_files)

ChoicePossible ==
    /\ remove_select # <<>>
    /\ remove_select[1].label \in Range(option_labels(pdf_files))

\* selected_label, as the selectbox returns it in this run.
SelectedLabels ==
    IF event = "remove" THEN Range(option_labels(pdf_files))
    ELSE IF event = "rerun-remove" /\ ChoicePossible THEN {remove_select[1].label}
    ELSE {}

\* `if not files:` ... return
RenderEmpty ==
    /\ pc = "render"
    /\ variant = "app"
    /\ pdf_files = <<>>
    /\ pc' = "merge"
    /\ remove_select' = <<>>
    /\ UNCHANGED <<variant, uploader, drag, registry_vars, event, flatten_vars>>
    /\ DropWarnings

\* Lines 331-337 in the run the user's drag started.  A label that is no key
\* of mapping raises KeyError, which ends the script run.
SortItems ==
    /\ pc = "render"
    /\ variant = "app"
    /\ pdf_files # <<>>
    /\ event = "sort"
    /\ \E request \in SortRequests(Len(pdf_files)) :
        LET reordered == sort_items(display_labels(pdf_files), request)
        IN  /\ drag' = request
            /\ IF reordered # <<>> /\ reordered # display_labels(pdf_files)
               THEN IF Range(reordered) \subseteq Range(display_labels(pdf_files))
                    THEN /\ pdf_files' = Reordered(pdf_files, reordered)
                         /\ Rerun("rerun-reorder")
                    ELSE /\ pc' = "idle"
                         /\ event' = "none"
                         /\ UNCHANGED pdf_files
               ELSE /\ pc' = "merge"
                    /\ UNCHANGED <<pdf_files, event>>
    /\ UNCHANGED <<variant, remove_select, uploader, last_output, flatten_vars>>
    /\ DropWarnings

\* Lines 350-360: in the run the user's choice in the selectbox started, and
\* in a rerun in which the selectbox still reads that choice.
RemoveSelected ==
    /\ pc = "render"
    /\ variant = "app"
    /\ pdf_files # <<>>
    /\ \E selected_label \in SelectedLabels :
        /\ pdf_files' = remove_item(pdf_files, chosen_map(pdf_files, selected_label))
        /\ remove_select' = <<[options |-> option_labels(pdf_files),
                               label |-> selected_label]>>
    /\ Rerun("rerun-remove")
    /\ UNCHANGED <<variant, uploader, drag, last_output, flatten_vars>>
    /\ DropWarnings

\* Lines 363-366 in the run the click on "Clear List" started.
ClearList ==
    /\ pc = "render"
    /\ variant = "app"
    /\ pdf_files # <<>>
    /\ event = "clear"
    /\ pdf_files' = <<>>
    /\ last_output' = <<>>
    /\ Rerun("rerun-clear")
    /\ UNCHANGED <<variant, remove_select, uploader, drag, flatten_vars>>
    /\ DropWarnings

\* No widget of the list was used: sort_items hands back display_labels, the
\* selectbox reads "Keep all" and "Clear List" reads False.
RenderKeep ==
    /\ pc = "render"
    /\ variant = "app"
    /\ pdf_files # <<>>
    /\ event \notin {"sort", "remove", "clear"}
    /\ ~(event = "rerun-remove" /\ ChoiceKept)
    /\ pc' = "merge"
    /\ remove_select' = <<>>
    /\ UNCHANGED <<variant, uploader, drag, registry_vars, event, flatten_vars>>
    /\ DropWarnings

----------------------------------------------------------------------------
(* "2. Arrange Files" of streamlit_app.py.                                 *)

\* list.pop(i) and list.insert(k, x), with Python's indices from 0.
ListPop(files, i) ==
    SubSeq(files, 1, i) \o SubSeq(files, i + 2, Len(files))

ListInsert(files, k, x) ==
    LET at == IF k > Len(files) THEN Len(files) ELSE k
    IN  SubSeq(files, 1, at) \o <<x>> \o SubSeq(files, at + 1, Len(files))

\* st.session_state.pdf_files.insert(i - 1, st.session_state.pdf_files.pop(i))
MoveUp(files, i) == ListInsert(ListPop(files, i), i - 1, files[i + 1])

\* st.session_state.pdf_files.insert(i + 1, st.session_state.pdf_files.pop(i))
MoveDown(files, i) == ListInsert(ListPop(files, i), i + 1, files[i + 1])

\* The button of row i that the user clicked: up is disabled in row 0, down
\* in the last row.
ArrangeMove ==
    /\ pc = "render"
    /\ variant = "streamlit"
    /\ event \in {"up", "down"}
    /\ \E i \in 0..(Len(pdf_files) - 1) :
        IF event = "up"
        THEN /\ i # 0
             /\ pdf_files' = MoveUp(pdf_files, i)
        ELSE /\ i # Len(pdf_files) - 1
             /\ pdf_files' = MoveDown(pdf_files, i)
    /\ Rerun("rerun-move")
    /\ UNCHANGED <<variant, remove_select, uploader, drag, last_output, flatten_vars>>
    /\ DropWarnings

ArrangeKeep ==
    /\ pc = "render"
    /\ variant = "streamlit"
    /\ event \notin {"up", "down"}
    /\ pc' = "merge"
    /\ UNCHANGED <<variant, remove_select, uploader, drag, registry_vars, event, flatten_vars>>
    /\ DropWarnings

----------------------------------------------------------------------------
(* "Create Flattened PDF" and flatten_pdfs, one statement group per step.  *)

\* can_merge = bool(st.session_state["pdf_files"])
can_merge == pdf_files # <<>>

\* app.py: `if merge_button and can_merge:`; streamlit_app.py: `if merge_button:`
MergeTaken ==
    /\ event = "merge"
    /\ variant = "app" => can_merge

\* flatten_pdfs up to its loop: output_doc = fitz.open(), total_pages = 0.
MergeBegin ==
    /\ pc = "merge"
    /\ MergeTaken
    /\ output_doc' = <<>>
    /\ total_pages' = 0
    /\ doc_idx' = 1
    /\ page_idx' = 1
    /\ pc' = "loop"
    /\ drag' = <<>>
    /\ UNCHANGED <<variant, remove_select, uploader, registry_vars, event, cache_vars, params,
                   open_docs, merge_result, exc>>

MergeSkip ==
    /\ pc = "merge"
    /\ ~MergeTaken
    /\ pc' = "tail"
    /\ drag' = <<>>
    /\ UNCHANGED <<variant, remove_select, uploader, registry_vars, event, cache_vars, flatten_vars>>

\* `with fitz.open(stream=entry["data"], filetype="pdf") as src_doc:`
FlattenOpen ==
    /\ pc = "loop"
    /\ doc_idx <= Len(pdf_files)
    /\ open_docs' = open_docs \cup {doc_idx}
    /\ page_idx' = 1
    /\ pc' = "pages"
    /\ UNCHANGED <<variant, remove_select, uploader, drag, registry_vars, event, cache_vars, params,
                   output_doc, total_pages, doc_idx, merge_result, exc>>

\* The image placed on the new page of output_doc: the rendering of page p of
\* the bytes `data` under the parameters.
RenderedPage(data, p, prm) ==
    [src |-> data, page |-> p, dpi |-> prm.dpi, codec |-> prm.image_format,
     quality |-> IF prm.image_format = "JPEG" THEN prm.jpeg_quality ELSE 100]

\* Mutant of NewPage: the page is inserted in front (new_page(0, ...)).
NewPageFront(doc, image) == <<image>> \o doc

\* output_doc.new_page(...); new_page.insert_image(rect, stream=image_bytes)
NewPage(doc, image) == Append(doc, image)

\* Mutant of CountPage: `total_pages = 1` for `total_pages += 1`.
CountPageAssigned(n) == IF variant = "app" THEN 1 ELSE n

\* total_pages += 1 (app.py; streamlit_app.py keeps no counter)
CountPage(n) == IF variant = "app" THEN n + 1 ELSE n

\* One iteration of `for page in src_doc:` that succeeds.
FlattenPage ==
    /\ pc = "pages"
    /\ page_idx <= PageCount(pdf_files[doc_idx].data)
    /\ Rasterizes(pdf_files[doc_idx].data, page_idx)
    /\ output_doc' = NewPage(output_doc,
                             RenderedPage(pdf_files[doc_idx].data, page_idx, params))
    /\ total_pages' = CountPage(total_pages)
    /\ page_idx' = page_idx + 1
    /\ UNCHANGED <<variant, remove_select, uploader, drag, registry_vars, event, cache_vars, params,
                   doc_idx, open_docs, merge_result, exc, pc>>

\* Where main() goes on after the exception of flatten_pdfs: app.py reports
\* it and returns, streamlit_app.py reports it and runs on.
AfterMergeError == IF variant = "app" THEN "idle" ELSE "tail"

\* Mutant of AfterError: the failure drops the stored result.
AfterErrorCleared(stored) == <<>>

\* `except Exception as exc:` reports the failure; the branch assigns nothing
\* to st.session_state["last_output"].
AfterError(stored) == stored

\* The exception a PyMuPDF call raises.  flatten_pdfs has no try statement
\* and no raise: the library's exception leaves it as it is, and the library
\* is handed one document's bytes and one page, never the position of the
\* entry in file_entries.
LibraryError(call) == [type |-> "LibraryError", cause |-> call]

\* Mutant of CloseSource: src_doc is opened without a with statement and
\* never closed.
CloseLeaked(docs, i) == docs

\* `with fitz.open(...) as src_doc:` closes src_doc when the block is left,
\* by its end or by an exception.
CloseSource(docs, i) == docs \ {i}

\* get_pixmap or tobytes raises: the with statement closes src_doc, the
\* exception leaves flatten_pdfs and main() catches it.
FlattenPageFails ==
    /\ pc = "pages"
    /\ page_idx <= PageCount(pdf_files[doc_idx].data)
    /\ ~Rasterizes(pdf_files[doc_idx].data, page_idx)
    /\ open_docs' = CloseSource(open_docs, doc_idx)
    /\ merge_result' = "error"
    /\ exc' = <<LibraryError("get_pixmap")>>
    /\ last_output' = AfterError(last_output)
    /\ output_doc' = <<>>
    /\ total_pages' = 0
    /\ doc_idx' = 1
    /\ page_idx' = 1
    /\ pc' = AfterMergeError
    /\ event' = IF variant = "app" THEN "none" ELSE event
    /\ UNCHANGED <<variant, remove_select, uploader, drag, pdf_files, cache_vars, params>>

\* The pages of src_doc are used up: the with statement closes it and the
\* outer loop goes to the next entry.
FlattenClose ==
    /\ pc = "pages"
    /\ page_idx > PageCount(pdf_files[doc_idx].data)
    /\ open_docs' = CloseSource(open_docs, doc_idx)
    /\ doc_idx' = doc_idx + 1
    /\ page_idx' = 1
    /\ pc' = "loop"
    /\ UNCHANGED <<variant, remove_select, uploader, drag, registry_vars, event, cache_vars, params,
                   output_doc, total_pages, merge_result, exc>>

\* output_doc.tobytes()
ToBytes(doc) == [pdf |-> doc]

\* What main() stores in st.session_state["last_output"].
StoredOutput(bytes, pages, prm) ==
    IF variant = "app"
    THEN [bytes |-> bytes, pages |-> pages, dpi |-> prm.dpi,
          image_format |-> prm.image_format, quality |-> prm.jpeg_quality]
    ELSE [bytes |-> bytes]

\* Whether output_doc.tobytes() raises.  For a document that has pages it
\* does not.  flatten_pdfs does not look at the number of entries or pages
\* before the call, so what happens for a document without pages is
\* PyMuPDF's choice: the model allows both that it raises and that it
\* returns the bytes of an empty document.
TobytesRaises(doc) == IF doc = <<>> THEN {TRUE, FALSE} ELSE {FALSE}

\* The loop is over: output_bytes = output_doc.tobytes(); on success the
\* function returns (output_bytes, total_pages) and main() stores the result.
FlattenSerialize ==
    /\ pc = "loop"
    /\ doc_idx > Len(pdf_files)
    /\ \E raised \in TobytesRaises(output_doc) :
        IF raised
        THEN /\ merge_result' = "error"
             /\ exc' = <<LibraryError("tobytes")>>
             /\ last_output' = AfterError(last_output)
             /\ pc' = AfterMergeError
             /\ event' = IF variant = "app" THEN "none" ELSE event
        ELSE /\ merge_result' = "ok"
             /\ last_output' = <<StoredOutput(ToBytes(output_doc), total_pages, params)>>
             /\ pc' = "tail"
             /\ UNCHANGED <<event, exc>>
    /\ output_doc' = <<>>
    /\ total_pages' = 0
    /\ doc_idx' = 1
    /\ UNCHANGED <<variant, remove_select, uploader, drag, pdf_files, cache_vars, params, page_idx,
                   open_docs>>

----------------------------------------------------------------------------
(* The end of main(): the download button, and "Merge Another File" of     *)
(* streamlit_app.py.                                                       *)

MergeAnother ==
    /\ pc = "tail"
    /\ variant = "streamlit"
    /\ last_output # <<>>
    /\ event = "another"
    /\ pdf_files' = <<>>
    /\ last_output' = <<>>
    /\ Rerun("rerun-another")
    /\ UNCHANGED <<variant, remove_select, uploader, drag, cache_vars, flatten_vars>>

EndRun ==
    /\ pc = "tail"
    /\ ~(variant = "streamlit" /\ last_output # <<>> /\ event = "another")
    /\ pc' = "idle"
    /\ event' = "none"
    /\ merge_result' = "none"
    /\ exc' = <<>>
    /\ UNCHANGED <<variant, remove_select, uploader, drag, registry_vars, cache_vars, flatten_locals>>

----------------------------------------------------------------------------
Next ==
    \/ UserUpload
    \/ UserWidget
    \/ UserMergeAnother
    \/ CacheBegin
    \/ CacheStep
    \/ RenderEmpty
    \/ SortItems
    \/ RemoveSelected
    \/ ClearList
    \/ RenderKeep
    \/ ArrangeMove
    \/ ArrangeKeep
    \/ MergeBegin
    \/ MergeSkip
    \/ FlattenOpen
    \/ FlattenPage
    \/ FlattenPageFails
    \/ FlattenClose
    \/ FlattenSerialize
    \/ MergeAnother
    \/ EndRun

Spec == Init /\ [][Next]_vars

\* The steps of a script run.  Streamlit runs main() to its end or to its
\* st.rerun(); only the user's interactions may fail to come.
RunStep ==
    \/ CacheBegin
    \/ CacheStep
    \/ RenderEmpty
    \/ SortItems
    \/ RemoveSelected
    \/ ClearList
    \/ RenderKeep
    \/ ArrangeMove
    \/ ArrangeKeep
    \/ MergeBegin
    \/ MergeSkip
    \/ FlattenOpen
    \/ FlattenPage
    \/ FlattenPageFails
    \/ FlattenClose
    \/ FlattenSerialize
    \/ MergeAnother
    \/ EndRun

SpecLive == Spec /\ WF_vars(RunStep)

----------------------------------------------------------------------------
(* flatten_pdfs as a function: it is called on any list of entries,        *)
(* the empty list included, and (in app.py) under any parameters.          *)

ValidFiles == { f \in Files : Opens(f.data) }

FlattenInputs ==
    { [i \in 1..Len(fs) |-> NewEntry(fs[i], [prefix |-> "0a1b", serial |-> i])] :
        fs \in SeqsUpTo(ValidFiles, MaxUpload) }

ParamChoices ==
    [dpi : {150, DEFAULT_DPI, 300}, image_format : {"JPEG", "PNG"},
     jpeg_quality : {DEFAULT_JPEG_QUALITY}]

InitFlatten ==
    /\ variant \in {"app", "streamlit"}
    /\ uploader = <<>>
    /\ drag = <<>>
    /\ pdf_files \in FlattenInputs
    /\ last_output = <<>>
    /\ pc = "loop"
    /\ event = "merge"
    /\ ci = 1
    /\ existing_hashes = {}
    /\ outcomes = <<>>
    /\ params \in IF variant = "app" THEN ParamChoices ELSE {DefaultParams}
    /\ output_doc = <<>>
    /\ total_pages = 0
    /\ doc_idx = 1
    /\ page_idx = 1
    /\ open_docs = {}
    /\ merge_result = "none"
    /\ exc = <<>>
    /\ remove_select = <<>>

NextFlatten ==
    \/ FlattenOpen
    \/ FlattenPage
    \/ FlattenPageFails
    \/ FlattenClose
    \/ FlattenSerialize

SpecFlatten == InitFlatten /\ [][NextFlatten]_vars

----------------------------------------------------------------------------
(* Properties.                                                             *)

Ids(files) == { files[i].id : i \in 1..Len(files) }

\* The positions of `before` whose entry does not carry the identifier.
Kept(before, id) == { i \in 1..Len(before) : before[i].id # id }

\* `after` is `before` without the entries that carry `id`: the other entries,
\* each once, in the order they had; and the pages of `after` are the pages
\* of `before` less those of the entries taken out.
RemovalOf(before, after, id) ==
    /\ Len(after) = Cardinality(Kept(before, id))
    /\ \A k \in 1..Len(after) :
        after[k] = before[CHOOSE i \in Kept(before, id) :
                            Cardinality({ j \in Kept(before, id) : j <= i }) = k]
    /\ id \notin Ids(before) => after = before
    /\ SumPages(after) =
         SumPages(before) - SumPages(SelectSeq(before, LAMBDA e : e.id = id))

IdUniverse == [prefix : Prefixes, serial : 1..(MaxUpload + 2)]

\* The number of pages of the entries before entry i.
PagesBefore(files, i) == SumPages(SubSeq(files, 1, i - 1))

\* Page k of the output shows page p of entry i, where k is p plus the pages
\* of the entries before i.
ShowsSourcePage(files, out, k) ==
    \E i \in 1..Len(files) :
        \E p \in 1..PageCount(files[i].data) :
            /\ k = PagesBefore(files, i) + p
            /\ out[k].src = files[i].data
            /\ out[k].page = p

\* C1: no two entries of the registry share a checksum, whatever sequence of
\* register, remove, reorder and clear operations led to it, in both scripts.
C1_NoSharedChecksum ==
    \A i, j \in 1..Len(pdf_files) :
        i # j => pdf_files[i].checksum # pdf_files[j].checksum

\* C2: a file whose bytes cannot be opened as a PDF always gets the Invalid
\* outcome (a warning) and leaves the registry as it was, at every position
\* of the batch, and the loop goes on to the next file of the batch.
C2_InvalidAlwaysWarned ==
    [][ (pc = "cache" /\ ~Opens(uploader[ci].data))
          => /\ outcomes' = Append(outcomes, "Invalid")
             /\ pdf_files' = pdf_files
             /\ ci < Len(uploader) => (pc' = "cache" /\ ci' = ci + 1) ]_vars

\* C3: a reorder by a permutation leaves the registry holding exactly that
\* permutation of its entries: the drag of app.py puts entry drag[i] at
\* position i, and a move of streamlit_app.py keeps every entry, each as
\* often as before.
C3_ReorderAppliesPermutation ==
    [][ /\ (pc = "render" /\ event = "sort" /\ IsPermutation(drag', Len(pdf_files)))
            => pdf_files' = [i \in 1..Len(pdf_files) |-> pdf_files[drag'[i]]]
        /\ (pc = "render" /\ event \in {"up", "down"})
            => /\ Len(pdf_files') = Len(pdf_files)
               /\ \A e \in Range(pdf_files) \cup Range(pdf_files') :
                    Cardinality({ i \in 1..Len(pdf_files) : pdf_files[i] = e })
                      = Cardinality({ i \in 1..Len(pdf_files') : pdf_files'[i] = e }) ]_vars

\* C4: a reorder request that is no permutation of the current entries is
\* rejected and leaves the registry as it was.
C4_BadReorderRejected ==
    [][ (pc = "render" /\ event = "sort" /\ ~IsPermutation(drag', Len(pdf_files)))
          => /\ pdf_files' = pdf_files
             /\ event' # "rerun-reorder" ]_vars

C6_RegisterAppendsOne ==
    [][ pc = "cache" =>
          LET uploaded == uploader[ci]
              n == Len(pdf_files)
              appended ==
                  /\ Len(pdf_files') = n + 1
                  /\ SubSeq(pdf_files', 1, n) = pdf_files
                  /\ pdf_files'[n + 1].id \notin Ids(pdf_files)
                  /\ pdf_files'[n + 1].name = uploaded.name
                  /\ pdf_files'[n + 1].data = uploaded.data
                  /\ pdf_files'[n + 1].pages = PageCount(uploaded.data)
          IN  /\ pdf_files' = pdf_files \/ appended
              /\ (Opens(uploaded.data) /\ Sha1(uploaded.data) \notin Checksums(pdf_files))
                    => appended ]_vars

C6_Witness ==
    /\ pc = "render"
    /\ outcomes = <<"Duplicate", "Registered">>
    /\ Len(pdf_files) = 2
    /\ pdf_files[1].data = uploader[1].data
    /\ pdf_files[2].data = uploader[2].data
    /\ pdf_files[1].id # pdf_files[2].id

\* C7: when flatten_pdfs of app.py succeeds, the page count it returns is the
\* sum of the page counts recorded at registration for the entries it was
\* given, and is the number of pages appended to the output document; while
\* it runs, the counter is the number of pages appended so far.
C7_PageCountConserved ==
    /\ (variant = "app" /\ pc \in {"loop", "pages"}) => total_pages = Len(output_doc)
    /\ (variant = "app" /\ pc = "tail" /\ merge_result = "ok")
         => /\ last_output[1].pages = SumPages(pdf_files)
            /\ last_output[1].pages = Len(last_output[1].bytes.pdf)

C7_Witness ==
    /\ variant = "app"
    /\ pc = "tail"
    /\ merge_result = "ok"
    /\ Len(pdf_files) = 2
    /\ last_output[1].pages = 5

\* C8: the pages of the output are the source pages in (document, page)
\* order: output page k is the rendering of the k-th page of the entries
\* concatenated in registry order, none skipped, repeated or out of place,
\* at every point of the loop and in the result.
C8_OutputInInputOrder ==
    /\ pc \in {"loop", "pages"}
         => \A k \in 1..Len(output_doc) : ShowsSourcePage(pdf_files, output_doc, k)
    /\ (pc = "tail" /\ merge_result = "ok")
         => LET out == last_output[1].bytes.pdf
            IN  /\ Len(out) = SumPages(pdf_files)
                /\ \A k \in 1..Len(out) : ShowsSourcePage(pdf_files, out, k)

C8_Witness ==
    /\ pc = "tail"
    /\ merge_result = "ok"
    /\ Len(pdf_files) = 2
    /\ pdf_files[1].data = "A"
    /\ pdf_files[2].data = "B"
    /\ LET out == last_output[1].bytes.pdf
       IN  /\ Len(out) = 5
           /\ out[1].src = "A" /\ out[1].page = 1
           /\ out[3].src = "B" /\ out[3].page = 1
           /\ out[4].src = "B" /\ out[4].page = 2

\* C8 as first stated, with its example: after a merge of A (2 pages) then B
\* (3 pages) the output is in input order, its page 1 is page 1 of A and its
\* page 4 is page 1 of B.
C8_ExampleAsStated ==
    /\ C8_OutputInInputOrder
    /\ (/\ pc = "tail"
        /\ merge_result = "ok"
        /\ Len(pdf_files) = 2
        /\ pdf_files[1].data = "A"
        /\ pdf_files[2].data = "B")
         => LET out == last_output[1].bytes.pdf
            IN  /\ out[1].src = "A" /\ out[1].page = 1
                /\ out[4].src = "B" /\ out[4].page = 1

C10_FailureKeepsLastOutput ==
    [][ /\ (merge_result' = "error" /\ merge_result # "error")
            => last_output' = last_output
        /\ (last_output' # last_output /\ last_output' # <<>>)
            => (pc = "loop" /\ merge_result' = "ok") ]_vars

C10_Witness ==
    /\ merge_result = "error"
    /\ last_output # <<>>
    /\ Len(pdf_files) = 2
    /\ pdf_files[2].data = "K"

\* C11: when a page cannot be rasterized, the failure that leaves flatten_pdfs
\* and reaches main() is a RenderError that carries the index of the failing
\* document, the index of the failing page within it, and the cause.
C11_RenderErrorNamesDocAndPage ==
    [][ (pc = "pages" /\ merge_result' = "error")
          => /\ Len(exc') = 1
             /\ exc'[1].type = "RenderError"
             /\ {"documentIndex", "pageIndex", "cause"} \subseteq DOMAIN exc'[1]
             /\ exc'[1].documentIndex = doc_idx
             /\ exc'[1].pageIndex = page_idx ]_vars

\* C12: while flatten_pdfs runs at most one source document is open, the one
\* whose pages are being rendered; none is open between two documents, and
\* none stays open once the call has returned or failed, a failure in the
\* middle of a document's pages included.
C12_SourceDocumentsScoped ==
    /\ Cardinality(open_docs) <= 1
    /\ pc = "pages" => open_docs = {doc_idx}
    /\ pc # "pages" => open_docs = {}

C12_Witness ==
    /\ merge_result = "error"
    /\ exc = <<LibraryError("get_pixmap")>>
    /\ Len(pdf_files) = 2
    /\ pdf_files[1].data = "A"
    /\ pdf_files[2].data = "K"
    /\ open_docs = {}

\* The reruns that a removal or "Clear List" starts come to an end.
RerunsEnd ==
    (variant = "app" /\ event \in {"rerun-remove", "rerun-clear"}) ~> (pc = "idle")

\* C13: in app.py the run that st.rerun() starts after a removal or after
\* "Clear List" registers nothing (what was removed stays absent although the
\* uploader still holds it), and the reruns that one such action starts come
\* to an end: the script finishes and the page waits for the user.
C13_RemovalDurableAcrossReruns ==
    /\ [][ (variant = "app" /\ event \in {"rerun-remove", "rerun-clear"} /\ pc = "cache")
             => pdf_files' = pdf_files ]_vars
    /\ RerunsEnd

============================================================================
